---- MODULE Spec2Model ----
(***************************************************************************)
(* Model of research_dashboard.py: the Google-Sheets accessor of the       *)
(* research dashboard (retry wrapper, worksheet resolver, cached reader,   *)
(* whole-table writer) and the form handler create_form that drives it.    *)
(*                                                                         *)
(* Four specifications share the variables:                                *)
(*   SpecRetry  one run of _retry_gspread, one loop iteration per step;    *)
(*   Spec       load_df / save_df of one process instance on row-sets of   *)
(*              every layout, with external edits and injected 429s;       *)
(*   SpecCache  the read cache of one instance over two tables, with the   *)
(*              clock, external edits and failing calls;                   *)
(*   SpecForm   page runs of create_form by two process instances, all     *)
(*              within one cache window.                                   *)
(*                                                                         *)
(* Cell values are strings.  The remote sheet stores "" for an empty cell; *)
(* a DataFrame holds NaN for a cell that was read empty.  Values that      *)
(* pandas would parse as numbers are outside the modelled value domain.    *)
(* The en dash of the academic years is written "-".                       *)
(***************************************************************************)
EXTENDS Integers, Sequences, FiniteSets, TLC

VARIABLES
    rt,       \* the running _retry_gspread call: script, attempt, pc, trace, sleeps, result
    sheet,    \* the remote spreadsheet: worksheet title -> worksheet
    opened,   \* per instance: _open_sheet_cached holds the opened spreadsheet
    cache,    \* per instance: the st.cache_data store of _load_df_cached
    now,      \* wall clock, seconds
    sess,     \* per instance: the page run in progress (pc, tab, year, df)
    last,     \* history: the last accessor call, its arguments and its result
    fill,     \* history: per worksheet title, the last load that read the remote sheet
    lastSave  \* history: the last save_df invocation made by create_form

vars == <<rt, sheet, opened, cache, now, sess, last, fill, lastSave>>

----------------------------------------------------------------------------
(* Bounds of the model *)

MaxFaults == 6      \* an operation fails with 429 at most this many times in a row
MaxRows == 2        \* rows of a row-set handed to save_df, and of a table in SpecForm
MaxTicks == 3       \* the clock advances at most this many times
TickSecs == 30      \* seconds per clock advance

----------------------------------------------------------------------------
(* Program constants *)

max_attempts == 5
last_attempt == 4
ttl == 60

NaN == "<NaN>"

academic_years == <<"2025-26", "2026-27", "2027-28">>
DEFAULT_YEAR == "2025-26"

status_dict ==
    [ t \in {"Journal Publications", "Research Projects", "Consultancy Projects",
             "Patents", "Project Ideas", "Conference", "Book / Book Chapter"} |->
      CASE t = "Journal Publications" ->
             <<"Started Writing", "Journal Identifying", "Manuscript Submitted",
               "In Process", "Under Review", "Accepted", "Published">>
        [] t = "Research Projects" ->
             <<"Idea", "Submitted", "In Process of Approval", "Approved",
               "In Process", "Completed">>
        [] t = "Consultancy Projects" ->
             <<"Idea Stage", "Submitted", "Approved", "Sanctioned", "In Process",
               "Completed">>
        [] t = "Patents" -> <<"Filed", "Published", "Granted">>
        [] t = "Project Ideas" ->
             <<"Drafted", "Submitted", "Under Review", "Implemented",
               "S.Y Mini Project", "T.Y Mini Project", "B.Tech Project",
               "M.Tech TRE", "M.Tech STR", "Ph.D.">>
        [] t = "Conference" -> <<"Submitted", "Accepted", "Presented">>
        [] OTHER -> <<"Proposal Submitted", "Accepted", "In Press", "Published">> ]

AllTabs == DOMAIN status_dict

\* The categories and years the model exercises.
Tabs == {"Journal Publications", "Patents", "Research Projects"}
Years == {DEFAULT_YEAR}

Range(s) == { s[i] : i \in DOMAIN s }

----------------------------------------------------------------------------
(* _retry_gspread *)

\* gspread.exceptions.APIError carries an HTTP status; WorksheetNotFound is
\* a GSpreadException that is not an APIError.
APIErrors == {"429", "404", "403", "500"}
Failures == APIErrors \cup {"WorksheetNotFound"}

\* An operation under test: its i-th invocation has outcome script[i]; once
\* the script is used up it succeeds.
Outcome(script, i) == IF i <= Len(script) THEN script[i] ELSE "ok"

Repeat429(k) == [ i \in 1..k |-> "429" ]

\* A faulty variant of RetryDecision: the bound of the loop is used for the test.
RetryDecisionOffByOne(attempt, o) ==
    IF o = "ok" THEN "return"
    ELSE IF o \in APIErrors /\ o = "429" /\ attempt < max_attempts THEN "sleep"
    ELSE "raise"

\* A faulty variant of RetryDecision: every APIError is retried.
RetryDecisionAnyStatus(attempt, o) ==
    IF o = "ok" THEN "return"
    ELSE IF o \in APIErrors /\ attempt < last_attempt THEN "sleep"
    ELSE "raise"

\* What one iteration of the loop does with the outcome o of func().
RetryDecision(attempt, o) ==
    IF o = "ok" THEN "return"
    ELSE IF o \in APIErrors /\ o = "429" /\ attempt < last_attempt THEN "sleep"
    ELSE "raise"

\* time.sleep(0.5 * (2 ** attempt)), in milliseconds
Backoff(attempt) == 500 * (2 ^ attempt)

\* The whole call: the result ("ok" or the failure raised) and the number of
\* invocations.  "None" is the fall-through of a for loop that ends.
RECURSIVE RetryLoop(_, _)
RetryLoop(script, attempt) ==
    IF attempt >= max_attempts THEN [result |-> "None", calls |-> attempt]
    ELSE LET o == Outcome(script, attempt + 1)
             d == RetryDecision(attempt, o)
         IN  IF d = "return" THEN [result |-> "ok", calls |-> attempt + 1]
             ELSE IF d = "raise" THEN [result |-> o, calls |-> attempt + 1]
             ELSE RetryLoop(script, attempt + 1)

retry_gspread(script) == RetryLoop(script, 0)

RtIdle == [script |-> <<>>, attempt |-> 0, pc |-> "idle", trace |-> <<>>,
           sleeps |-> <<>>, result |-> "None"]

\* The scripts of the fault injector: k rate-limit failures, then success or
\* one other failure.
RetryScripts ==
    { Repeat429(k) : k \in 0..MaxFaults }
      \cup { Repeat429(k) \o <<e>> : k \in 0..MaxFaults, e \in Failures \ {"429"} }

\* try: return func(*args, **kwargs) / except APIError
RetryCall ==
    /\ rt.pc = "call"
    /\ LET o == Outcome(rt.script, Len(rt.trace) + 1)
           d == RetryDecision(rt.attempt, o)
       IN  rt' = [rt EXCEPT !.trace = Append(@, o),
                            !.pc = IF d = "sleep" THEN "sleep" ELSE "done",
                            !.result = IF d = "return" THEN "ok"
                                       ELSE IF d = "raise" THEN o ELSE @]
    /\ UNCHANGED <<sheet, opened, cache, now, sess, last, fill, lastSave>>

\* time.sleep(...); continue
RetrySleep ==
    /\ rt.pc = "sleep"
    /\ rt' = [rt EXCEPT !.sleeps = Append(@, Backoff(rt.attempt)),
                        !.attempt = @ + 1,
                        !.pc = IF rt.attempt + 1 < max_attempts THEN "call" ELSE "done"]
    /\ UNCHANGED <<sheet, opened, cache, now, sess, last, fill, lastSave>>

NextRetry == RetryCall \/ RetrySleep

----------------------------------------------------------------------------
(* Tables: worksheets of the remote sheet and DataFrames *)

\* A worksheet: header row and data rows (each a function header column ->
\* cell); an ABSENT worksheet has present = FALSE.
AbsentWs == [present |-> FALSE, header |-> <<>>, rows |-> <<>>]
BlankWs == [present |-> TRUE, header |-> <<>>, rows |-> <<>>]

\* A DataFrame: ordered columns and rows (each a function column -> value).
EmptyDF == [cols |-> <<>>, rows |-> <<>>]

\* f"{tab.replace('/', '-') }__{year}"; "Book / Book Chapter" is the one
\* category with a "/".
ws_name(tab, year) ==
    (IF tab = "Book / Book Chapter" THEN "Book - Book Chapter" ELSE tab)
        \o "__" \o year

title_col(tab) == tab \o " Title"

base_columns(tab) ==
    <<"Faculty", "Academic Year", title_col(tab), "Status", "Status Date",
      "Remarks", "Uploaded File", "Submitted On", "Updated On">>
      \o (IF tab = "Journal Publications"
          THEN <<"ISSN", "DOI", "Volume", "Issue", "Date of Publication",
                 "Indexing", "Scopus Quartile">>
          ELSE <<>>)

WsNames == { ws_name(t, y) : t \in Tabs, y \in Years }

\* gspread_dataframe writes a missing value as an empty cell.
cellrepr(v) == IF v = NaN THEN "" ELSE v

\* set_with_dataframe(ws, df, include_index=False, resize=True): the
\* worksheet becomes exactly the header and the rows of df.
set_with_dataframe(df) ==
    [present |-> TRUE,
     header |-> df.cols,
     rows |-> [ i \in DOMAIN df.rows |->
                  [ c \in Range(df.cols) |-> cellrepr(df.rows[i][c]) ] ]]

\* get_as_dataframe(ws, evaluate_formulas=True, header=0): the first row
\* names the columns; an empty cell is read as NaN.
get_as_dataframe(ws) ==
    [cols |-> ws.header,
     rows |-> [ i \in DOMAIN ws.rows |->
                  [ c \in Range(ws.header) |->
                      IF ws.rows[i][c] = "" THEN NaN ELSE ws.rows[i][c] ] ]]

IsAllNaN(df, r) == \A c \in Range(df.cols) : r[c] = NaN
HasNaN(df, r) == \E c \in Range(df.cols) : r[c] = NaN

\* A faulty variant of dropna_all: how="any".
dropna_any(df) ==
    [df EXCEPT !.rows = SelectSeq(df.rows, LAMBDA r : ~HasNaN(df, r))]

\* df.dropna(how="all")
dropna_all(df) ==
    [df EXCEPT !.rows = SelectSeq(df.rows, LAMBDA r : ~IsAllNaN(df, r))]

\* A faulty variant of ensure_columns: nothing is backfilled.
ensure_columns_none(df, cols) == df

\* for c in cols: if c not in df.columns: df[c] = ""
ensure_columns(df, cols) ==
    LET have == Range(df.cols)
        missing == SelectSeq(cols, LAMBDA c : c \notin have)
        all == df.cols \o missing
        names == Range(all)
    IN  [cols |-> all,
         rows |-> [ i \in DOMAIN df.rows |->
                      [ c \in names |-> IF c \in have THEN df.rows[i][c] ELSE "" ] ]]

\* df[cols]: the columns cols, in that order (those df has)
select_columns(df, cols) ==
    LET names == Range(df.cols)
        have == SelectSeq(cols, LAMBDA c : c \in names)
        kept == Range(have)
    IN  [cols |-> have,
         rows |-> [ i \in DOMAIN df.rows |-> [ c \in kept |-> df.rows[i][c] ] ]]

----------------------------------------------------------------------------
(* Injected failures of the remote calls *)

\* The remote calls an accessor call can make.  "worksheet", "add_worksheet",
\* "open_by_key" and "save_write" run under _retry_gspread; "header_write"
\* (set_with_dataframe in _ensure_worksheet) and "fetch" (get_as_dataframe)
\* do not.
Sites == {"open_by_key", "worksheet", "add_worksheet", "header_write",
          "fetch", "save_write"}

NoFault == [site |-> "none", k |-> 0]

\* One remote call of the accessor call answers 429 k times in a row: once
\* (a call under _retry_gspread recovers) or until the caller gives up.
FaultPlans ==
    {NoFault, [site |-> "worksheet", k |-> 1]} \cup [site : Sites, k : {MaxFaults}]

Script(plan, site) == IF plan.site = site THEN Repeat429(plan.k) ELSE <<>>

\* The retry wrapper gave up on a rate-limited call.
Exhausted(r) == r.result = "429" /\ r.calls = max_attempts

----------------------------------------------------------------------------
(* _open_sheet_cached, _ensure_worksheet *)

\* @st.cache_resource: the opened spreadsheet is kept once open_by_key has
\* returned; a failure is not cached.
open_sheet_cached(op, plan) ==
    IF op THEN [status |-> "ok", opened |-> TRUE, exhausted |-> FALSE]
    ELSE LET r == retry_gspread(Script(plan, "open_by_key"))
         IN  [status |-> r.result, opened |-> r.result = "ok",
              exhausted |-> Exhausted(r)]

\* A faulty variant of ensure_worksheet: the worksheet is created and its header
\* written without looking for it first.
ensure_worksheet_always(sh, ws_title, cols, plan) ==
    [status |-> "ok",
     sheet |-> [sh EXCEPT ![ws_title] = set_with_dataframe([cols |-> cols, rows |-> <<>>])],
     created |-> TRUE, exhausted |-> FALSE]

ensure_worksheet(sh, ws_title, cols, plan) ==
    LET found == IF sh[ws_title].present THEN "ok" ELSE "WorksheetNotFound"
        r1 == retry_gspread(Script(plan, "worksheet") \o <<found>>)
        r2 == retry_gspread(Script(plan, "add_worksheet"))
        added == [sh EXCEPT ![ws_title] = BlankWs]
    IN  IF r1.result = "ok"
        THEN [status |-> "ok", sheet |-> sh, created |-> FALSE, exhausted |-> FALSE]
        ELSE IF r1.result # "WorksheetNotFound"
        THEN [status |-> r1.result, sheet |-> sh, created |-> FALSE,
              exhausted |-> Exhausted(r1)]
        ELSE IF r2.result # "ok"
        THEN [status |-> r2.result, sheet |-> sh, created |-> FALSE,
              exhausted |-> Exhausted(r2)]
        ELSE IF Script(plan, "header_write") # <<>>
        THEN [status |-> "429", sheet |-> added, created |-> TRUE, exhausted |-> FALSE]
        ELSE [status |-> "ok",
              sheet |-> [sh EXCEPT ![ws_title] =
                            set_with_dataframe([cols |-> cols, rows |-> <<>>])],
              created |-> TRUE, exhausted |-> FALSE]

----------------------------------------------------------------------------
(* _load_df_cached, load_df, save_df *)

\* The body of _load_df_cached: what a cache miss runs.
load_df_cached(sh, op, ws_title, cols, plan) ==
    LET o == open_sheet_cached(op, plan)
        e == ensure_worksheet(sh, ws_title, cols, plan)
        raw == get_as_dataframe(e.sheet[ws_title])
        df == select_columns(ensure_columns(dropna_all(raw), cols), cols)
    IN  IF o.status # "ok"
        THEN [status |-> o.status, df |-> EmptyDF, sheet |-> sh, opened |-> o.opened,
              created |-> FALSE, read |-> FALSE, exhausted |-> o.exhausted]
        ELSE IF e.status # "ok"
        THEN [status |-> e.status, df |-> EmptyDF, sheet |-> e.sheet, opened |-> TRUE,
              created |-> e.created, read |-> FALSE, exhausted |-> e.exhausted]
        ELSE IF Script(plan, "fetch") # <<>>
        THEN [status |-> "429", df |-> EmptyDF, sheet |-> e.sheet, opened |-> TRUE,
              created |-> e.created, read |-> FALSE, exhausted |-> FALSE]
        ELSE [status |-> "ok", df |-> df, sheet |-> e.sheet, opened |-> TRUE,
              created |-> e.created, read |-> TRUE, exhausted |-> FALSE]

\* The st.cache_data store: one entry per argument tuple (sheet_key,
\* ws_title, cols_tuple); sheet_key is fixed and cols_tuple is determined by
\* the category in ws_title, so ws_title is the key.
NoEntry == [valid |-> FALSE, at |-> 0, df |-> EmptyDF]
EmptyCache == [ w \in WsNames |-> NoEntry ]

\* @st.cache_data(ttl=60): an entry is served while it is younger than ttl.
CacheValid(ent, t) == ent.valid /\ t < ent.at + ttl

\* load_df (USE_GSHEETS is True): the cached call of _load_df_cached.  A
\* call that raises stores nothing.
load_df(c, sh, op, t, tab, year, plan) ==
    LET cols == base_columns(tab)
        w == ws_name(tab, year)
        r == load_df_cached(sh, op, w, cols, plan)
    IN  IF CacheValid(c[w], t)
        THEN [status |-> "ok", df |-> c[w].df, sheet |-> sh, opened |-> op,
              cache |-> c, hit |-> TRUE, read |-> FALSE, created |-> FALSE,
              exhausted |-> FALSE]
        ELSE [status |-> r.status, df |-> r.df, sheet |-> r.sheet, opened |-> r.opened,
              cache |-> [c EXCEPT ![w] = IF r.status = "ok"
                                         THEN [valid |-> TRUE, at |-> t, df |-> r.df]
                                         ELSE NoEntry],
              hit |-> FALSE, read |-> r.read, created |-> r.created,
              exhausted |-> r.exhausted]

\* A faulty variant of cache_clear: only the entry of the table written is dropped.
cache_clear_one(c, w) == [c EXCEPT ![w] = NoEntry]

\* _load_df_cached.clear()
cache_clear(c, w) == EmptyCache

\* save_df (USE_GSHEETS is True): normalise to the declared columns,
\* overwrite the whole worksheet, clear the read cache.
save_df(c, sh, op, tab, year, df, plan) ==
    LET cols == base_columns(tab)
        w == ws_name(tab, year)
        norm == select_columns(ensure_columns(df, cols), cols)
        o == open_sheet_cached(op, plan)
        e == ensure_worksheet(sh, w, cols, plan)
        wr == retry_gspread(Script(plan, "save_write"))
    IN  IF o.status # "ok"
        THEN [status |-> o.status, written |-> EmptyDF, sheet |-> sh, ensured |-> sh[w],
              opened |-> o.opened, cache |-> c, created |-> FALSE,
              exhausted |-> o.exhausted]
        ELSE IF e.status # "ok"
        THEN [status |-> e.status, written |-> EmptyDF, sheet |-> e.sheet,
              ensured |-> e.sheet[w], opened |-> TRUE, cache |-> c,
              created |-> e.created, exhausted |-> e.exhausted]
        ELSE IF wr.result # "ok"
        THEN [status |-> wr.result, written |-> EmptyDF, sheet |-> e.sheet,
              ensured |-> e.sheet[w], opened |-> TRUE, cache |-> c,
              created |-> e.created, exhausted |-> Exhausted(wr)]
        ELSE [status |-> "ok", written |-> norm,
              sheet |-> [e.sheet EXCEPT ![w] = set_with_dataframe(norm)],
              ensured |-> e.sheet[w], opened |-> TRUE, cache |-> cache_clear(c, w),
              created |-> e.created, exhausted |-> FALSE]

----------------------------------------------------------------------------
(* The accessor as called by one process instance *)

Insts == {"i1", "i2"}

NoFill == [set |-> FALSE, at |-> 0, df |-> EmptyDF]
FillValid(f, t) == f.set /\ t < f.at + ttl

LastNone ==
    [op |-> "none", tab |-> "", year |-> "", status |-> "", df |-> EmptyDF,
     arg |-> EmptyDF, hit |-> FALSE, read |-> FALSE, created |-> FALSE,
     exhausted |-> FALSE, pre |-> AbsentWs, ensured |-> AbsentWs,
     inWindow |-> FALSE, snap |-> EmptyDF, afterSave |-> FALSE, saved |-> EmptyDF]

SessIdle == [pc |-> "idle", tab |-> "", year |-> "", df |-> EmptyDF]
NoSave == [made |-> FALSE, by |-> "", tab |-> "", year |-> "", df |-> EmptyDF,
           faculty |-> "", title |-> "", status |-> "", stale |-> FALSE]

Init ==
    /\ rt = RtIdle
    /\ sheet = [ w \in WsNames |-> AbsentWs ]
    /\ opened = [ i \in Insts |-> FALSE ]
    /\ cache = [ i \in Insts |-> EmptyCache ]
    /\ now = 0
    /\ sess = [ i \in Insts |-> SessIdle ]
    /\ last = LastNone
    /\ fill = [ w \in WsNames |-> NoFill ]
    /\ lastSave = NoSave

\* df = load_df(tab, year), called by instance i
LoadDf(i, tab, year, plan) ==
    \E r \in {load_df(cache[i], sheet, opened[i], now, tab, year, plan)} :
    LET w == ws_name(tab, year)
        after == /\ last.op = "save" /\ last.status = "ok"
                 /\ last.tab = tab /\ last.year = year
    IN  /\ sheet' = r.sheet
        /\ opened' = [opened EXCEPT ![i] = r.opened]
        /\ cache' = [cache EXCEPT ![i] = r.cache]
        /\ last' = [op |-> "load", tab |-> tab, year |-> year, status |-> r.status,
                    df |-> r.df, arg |-> EmptyDF, hit |-> r.hit, read |-> r.read,
                    created |-> r.created, exhausted |-> r.exhausted,
                    pre |-> sheet[w], ensured |-> r.sheet[w],
                    inWindow |-> FillValid(fill[w], now),
                    snap |-> IF FillValid(fill[w], now) THEN fill[w].df ELSE EmptyDF,
                    afterSave |-> after,
                    saved |-> IF after THEN last.arg ELSE EmptyDF]
        /\ fill' = IF r.read
                   THEN [fill EXCEPT ![w] = [set |-> TRUE, at |-> now, df |-> r.df]]
                   ELSE fill
        /\ UNCHANGED <<rt, now, sess, lastSave>>

\* save_df(tab, year, df), called by instance i
SaveDf(i, tab, year, df, plan) ==
    \E r \in {save_df(cache[i], sheet, opened[i], tab, year, df, plan)} :
    LET w == ws_name(tab, year)
    IN  /\ sheet' = r.sheet
        /\ opened' = [opened EXCEPT ![i] = r.opened]
        /\ cache' = [cache EXCEPT ![i] = r.cache]
        /\ last' = [LastNone EXCEPT !.op = "save", !.tab = tab, !.year = year,
                                    !.status = r.status, !.df = r.written,
                                    !.arg = IF r.status = "ok" THEN df ELSE EmptyDF,
                                    !.created = r.created, !.exhausted = r.exhausted,
                                    !.pre = sheet[w], !.ensured = r.ensured]
        /\ fill' = IF r.status = "ok" THEN [ x \in WsNames |-> NoFill ] ELSE fill
        /\ UNCHANGED <<rt, now, sess, lastSave>>

\* Somebody edits a worksheet in the Google Sheets UI.
ExternalEdit(w, content) ==
    /\ sheet[w].present
    /\ sheet[w] # content
    /\ sheet' = [sheet EXCEPT ![w] = content]
    /\ last' = [LastNone EXCEPT !.op = "edit"]
    /\ UNCHANGED <<rt, opened, cache, now, sess, fill, lastSave>>

\* Time passes; entries older than ttl are gone from the cache.
Tick ==
    /\ now < MaxTicks * TickSecs
    /\ now' = now + TickSecs
    /\ cache' = [ i \in Insts |-> [ w \in WsNames |->
                    IF CacheValid(cache[i][w], now') THEN cache[i][w] ELSE NoEntry ] ]
    /\ fill' = [ w \in WsNames |-> IF FillValid(fill[w], now') THEN fill[w] ELSE NoFill ]
    /\ UNCHANGED <<rt, sheet, opened, sess, last, lastSave>>

----------------------------------------------------------------------------
(* Inputs of the accessor specifications *)

SeqsUpTo(S, n) == UNION { [1..k -> S] : k \in 0..n }

\* The columns a caller's DataFrame may carry: the declared ones and "Type"
\* (the column the department dashboard adds).
CallerColumns(tab) == Range(base_columns(tab)) \cup {"Type"}

\* A filled row (its Remarks read back from the sheet as NaN) and a row whose
\* declared fields are all empty.
RowA(tab) ==
    [ c \in CallerColumns(tab) |->
        CASE c = "Faculty" -> "Prof. A"
          [] c = "Academic Year" -> DEFAULT_YEAR
          [] c = title_col(tab) -> "X"
          [] c = "Status" -> status_dict[tab][1]
          [] c = "Remarks" -> NaN
          [] c = "Type" -> tab
          [] OTHER -> "" ]

RowE(tab) == [ c \in CallerColumns(tab) |-> IF c = "Type" THEN tab ELSE "" ]

\* Column layouts of a caller's DataFrame: the declared columns, and a
\* reordered part of them with an undeclared column.
Layouts(tab) == { base_columns(tab), <<"Type", title_col(tab), "Faculty">> }

MakeDF(cols, rows) ==
    [cols |-> cols,
     rows |-> [ i \in DOMAIN rows |-> [ c \in Range(cols) |-> rows[i][c] ] ]]

RowSets(tab) ==
    { MakeDF(v, rs) : v \in Layouts(tab), rs \in SeqsUpTo({RowA(tab), RowE(tab)}, MaxRows) }

\* What an external editor may leave in a worksheet: a header with a missing,
\* an extra and a moved column, with a row, and with a row that is empty in
\* every declared column; a sheet wiped blank.
ExtHeader(tab) == <<title_col(tab), "Notes", "Faculty">>

ExtContents(tab) ==
    { [present |-> TRUE, header |-> ExtHeader(tab),
       rows |-> << [ c \in Range(ExtHeader(tab)) |->
                       CASE c = "Faculty" -> "Prof. B" [] c = "Notes" -> "n"
                         [] OTHER -> "Y" ] >>],
      [present |-> TRUE, header |-> ExtHeader(tab),
       rows |-> << [ c \in Range(ExtHeader(tab)) |-> IF c = "Notes" THEN "n" ELSE "" ] >>],
      BlankWs }

AccTabs == {"Journal Publications", "Patents"}

AccRowSets == [ tab \in AccTabs |-> RowSets(tab) ]
AccContents == [ tab \in AccTabs |-> ExtContents(tab) ]

----------------------------------------------------------------------------
(* Spec: load_df and save_df of one instance on row-sets of every layout,   *)
(* with external edits and injected rate-limit failures                     *)

\* A behaviour of Spec works on one table: the category of its first call.
OnlyTable(tab) == \A t \in AccTabs \ {tab} : ~sheet[ws_name(t, DEFAULT_YEAR)].present

NextLoad ==
    \E tab \in AccTabs, plan \in FaultPlans :
        OnlyTable(tab) /\ LoadDf("i1", tab, DEFAULT_YEAR, plan)

NextSave ==
    \E tab \in AccTabs, plan \in FaultPlans :
        \E df \in AccRowSets[tab] : OnlyTable(tab) /\ SaveDf("i1", tab, DEFAULT_YEAR, df, plan)

NextEdit ==
    \E tab \in AccTabs :
        \E content \in AccContents[tab] : ExternalEdit(ws_name(tab, DEFAULT_YEAR), content)

Next == NextLoad \/ NextSave \/ NextEdit

Spec == Init /\ [][Next]_vars

----------------------------------------------------------------------------
(* SpecCache: the read cache of one instance over two tables, with the      *)
(* clock, external edits and failing calls                                  *)

CacheTabs == {"Patents", "Research Projects"}

CacheRowSets(tab) ==
    { MakeDF(base_columns(tab), rs) : rs \in SeqsUpTo({RowA(tab)}, 1) }

CachePlans == {NoFault, [site |-> "fetch", k |-> 1],
               [site |-> "save_write", k |-> MaxFaults]}

CacheLoad ==
    \E tab \in CacheTabs, plan \in CachePlans : LoadDf("i1", tab, DEFAULT_YEAR, plan)

CacheSave ==
    \E tab \in CacheTabs, plan \in CachePlans :
        \E df \in CacheRowSets(tab) : SaveDf("i1", tab, DEFAULT_YEAR, df, plan)

CacheEdit ==
    \E tab \in CacheTabs :
        \E content \in ExtContents(tab) \ {BlankWs} :
            ExternalEdit(ws_name(tab, DEFAULT_YEAR), content)

NextCache == CacheLoad \/ CacheSave \/ CacheEdit \/ Tick

SpecCache == Init /\ [][NextCache]_vars

----------------------------------------------------------------------------
(* create_form *)

admin_email_ok == "admin@mit.edu"
admin_password_ok == "mitresearch2025"

\* is_admin = admin_users.get(admin_email) == admin_password
is_admin(email, password) == email = admin_email_ok /\ password = admin_password_ok

\* get_now(): the clock as a string
get_now(t) == "t" \o ToString(t)

\* status_date.strftime("%Y-%m-%d"): the model's runs all happen on one day
today == "day0"

\* A faulty variant of is_duplicate: the title is looked up in the wrong column.
is_duplicate_wrong_column(df, tab, faculty, year, title) ==
    \E i \in DOMAIN df.rows :
        /\ df.rows[i]["Faculty"] = faculty
        /\ df.rows[i]["Academic Year"] = year
        /\ df.rows[i]["Remarks"] = title

\* duplicate = df[(df["Faculty"] == faculty) & (df["Academic Year"] ==
\* year_selected) & (df[title_col] == title)]; not duplicate.empty
is_duplicate(df, tab, faculty, year, title) ==
    \E i \in DOMAIN df.rows :
        /\ df.rows[i]["Faculty"] = faculty
        /\ df.rows[i]["Academic Year"] = year
        /\ df.rows[i][title_col(tab)] = title

\* faculty == "Select Your Name" or not title or not status
missing_required(faculty, title, status) ==
    faculty = "Select Your Name" \/ title = "" \/ status = ""

\* The keys of the row dict: the nine base fields, and the publication
\* fields for a published journal paper.
form_row_keys(tab, status) ==
    <<"Faculty", "Academic Year", title_col(tab), "Status", "Status Date",
      "Remarks", "Uploaded File", "Submitted On", "Updated On">>
      \o (IF tab = "Journal Publications" /\ status = "Published"
          THEN <<"ISSN", "DOI", "Volume", "Issue", "Date of Publication",
                 "Indexing", "Scopus Quartile">>
          ELSE <<>>)

\* row = {...}; no document is uploaded and the publication fields are left
\* empty in the model.
form_row(tab, year, faculty, title, status, remarks, t) ==
    [ c \in Range(form_row_keys(tab, status)) |->
        CASE c = "Faculty" -> faculty
          [] c = "Academic Year" -> year
          [] c = title_col(tab) -> title
          [] c = "Status" -> status
          [] c = "Status Date" -> today
          [] c = "Remarks" -> remarks
          [] c \in {"Submitted On", "Updated On"} -> get_now(t)
          [] OTHER -> "" ]

\* pd.concat([df, pd.DataFrame([row])], ignore_index=True): the union of the
\* columns; a value a frame does not have is NaN.
concat_row(df, keys, row) ==
    LET have == Range(df.cols)
        rk == Range(keys)
        all == df.cols \o SelectSeq(keys, LAMBDA c : c \notin have)
        names == Range(all)
    IN  [cols |-> all,
         rows |-> [ i \in 1..(Len(df.rows) + 1) |->
                      [ c \in names |->
                          IF i <= Len(df.rows)
                          THEN (IF c \in have THEN df.rows[i][c] ELSE NaN)
                          ELSE (IF c \in rk THEN row[c] ELSE NaN) ] ]]

\* df.at[row_to_edit, "Status"] = "Completed"; df.at[row_to_edit, "Updated On"] = get_now()
admin_edit(df, idx, t) ==
    [df EXCEPT !.rows[idx] = [@ EXCEPT !["Status"] = "Completed",
                                       !["Updated On"] = get_now(t)]]

\* The snapshot a run holds differs from what the worksheet holds now.
Stale(df, tab, year) ==
    df # select_columns(ensure_columns(dropna_all(get_as_dataframe(
             sheet[ws_name(tab, year)])), base_columns(tab)), base_columns(tab))

FormTabs == {"Patents", "Research Projects"}
FormPlans == {NoFault, [site |-> "save_write", k |-> MaxFaults]}
FormFaculty == {"Select Your Name", "Prof. A", "Prof. B"}
FormTitles == {"", "X"}
FormStatus(tab) == { status_dict[tab][1] }

\* A page run starts: year_selected, df = load_df(tab, year_selected).  A
\* load that raises ends the run.
RunStart(i, tab, year) ==
    /\ sess[i].pc = "idle"
    /\ \E r \in {load_df(cache[i], sheet, opened[i], now, tab, year, NoFault)} :
        /\ sheet' = r.sheet
        /\ opened' = [opened EXCEPT ![i] = r.opened]
        /\ cache' = [cache EXCEPT ![i] = r.cache]
        /\ sess' = [sess EXCEPT ![i] =
                      IF r.status = "ok"
                      THEN [pc |-> "loaded", tab |-> tab, year |-> year, df |-> r.df]
                      ELSE SessIdle]
    /\ UNCHANGED <<rt, now, last, fill, lastSave>>

\* The run was started by the Submit button of the form.
RunSubmit(i, faculty, title, status, remarks, plan) ==
    LET tab == sess[i].tab
        year == sess[i].year
        df == sess[i].df
    IN  /\ sess[i].pc = "loaded"
        /\ Len(df.rows) < MaxRows
        /\ IF missing_required(faculty, title, status)
           THEN /\ sess' = [sess EXCEPT ![i] = SessIdle]
                /\ UNCHANGED <<sheet, opened, cache, lastSave>>
           ELSE IF is_duplicate(df, tab, faculty, year, title)
           THEN /\ sess' = [sess EXCEPT ![i] = SessIdle]
                /\ UNCHANGED <<sheet, opened, cache, lastSave>>
           ELSE \E new \in {concat_row(df, form_row_keys(tab, status),
                              form_row(tab, year, faculty, title, status, remarks, now))} :
                \E r \in {save_df(cache[i], sheet, opened[i], tab, year, new, plan)} :
                /\ sheet' = r.sheet
                /\ opened' = [opened EXCEPT ![i] = r.opened]
                /\ cache' = [cache EXCEPT ![i] = r.cache]
                /\ lastSave' = [made |-> TRUE, by |-> "submit", tab |-> tab,
                                year |-> year, df |-> new, faculty |-> faculty,
                                title |-> title, status |-> status,
                                stale |-> Stale(df, tab, year)]
                /\ sess' = [sess EXCEPT ![i] = SessIdle]
        /\ UNCHANGED <<rt, now, last, fill>>

\* The run was started by the admin's "Update Selected Row Status" button.
RunAdmin(i, email, password, idx, plan) ==
    LET tab == sess[i].tab
        year == sess[i].year
        df == sess[i].df
    IN  /\ sess[i].pc = "loaded"
        /\ df.rows # <<>>
        /\ is_admin(email, password)
        /\ idx \in DOMAIN df.rows
        /\ \E new \in {admin_edit(df, idx, now)} :
           \E r \in {save_df(cache[i], sheet, opened[i], tab, year, new, plan)} :
            /\ sheet' = r.sheet
            /\ opened' = [opened EXCEPT ![i] = r.opened]
            /\ cache' = [cache EXCEPT ![i] = r.cache]
            /\ lastSave' = [made |-> TRUE, by |-> "admin", tab |-> tab, year |-> year,
                            df |-> new, faculty |-> "", title |-> "", status |-> "",
                            stale |-> Stale(df, tab, year)]
            /\ sess' = [sess EXCEPT ![i] = SessIdle]
        /\ UNCHANGED <<rt, now, last, fill>>

\* The run ends with no button pressed.
RunEnd(i) ==
    /\ sess[i].pc = "loaded"
    /\ sess' = [sess EXCEPT ![i] = SessIdle]
    /\ UNCHANGED <<rt, sheet, opened, cache, now, last, fill, lastSave>>

\* A behaviour of SpecForm works on one table: the category of its first run.
OnlyFormTable(tab) ==
    \A t \in FormTabs \ {tab} : \A y \in Years : ~sheet[ws_name(t, y)].present

FormStart ==
    \E i \in Insts, tab \in FormTabs, year \in Years :
        OnlyFormTable(tab) /\ RunStart(i, tab, year)

FormSubmit ==
    \E i \in Insts, faculty \in FormFaculty, title \in FormTitles, plan \in FormPlans :
        /\ sess[i].pc = "loaded"
        /\ \E status \in FormStatus(sess[i].tab) :
               RunSubmit(i, faculty, title, status, "", plan)

FormAdmin ==
    \E i \in Insts, email \in {"", admin_email_ok}, password \in {"", admin_password_ok},
       idx \in 1..MaxRows, plan \in FormPlans :
        RunAdmin(i, email, password, idx, plan)

FormEnd == \E i \in Insts : RunEnd(i)

NextForm == FormStart \/ FormSubmit \/ FormAdmin \/ FormEnd

SpecForm == Init /\ [][NextForm]_vars

----------------------------------------------------------------------------
(* SpecRetry: one call of _retry_gspread on a scripted operation *)

InitRetry ==
    /\ rt \in { [RtIdle EXCEPT !.script = sc, !.pc = "call"] : sc \in RetryScripts }
    /\ sheet = [ w \in WsNames |-> AbsentWs ]
    /\ opened = [ i \in Insts |-> FALSE ]
    /\ cache = [ i \in Insts |-> EmptyCache ]
    /\ now = 0
    /\ sess = [ i \in Insts |-> SessIdle ]
    /\ last = LastNone
    /\ fill = [ w \in WsNames |-> NoFill ]
    /\ lastSave = NoSave

SpecRetry == InitRetry /\ [][NextRetry]_vars

----------------------------------------------------------------------------
(* Properties *)

\* The operation fails with 429 exactly Len(script) times and then succeeds.
RateLimitedThenOk == \A i \in DOMAIN rt.script : rt.script[i] = "429"

\* C1: an operation that answers 429 exactly k times and then succeeds is
\* invoked at most 5 times and never again after a success; the call ends
\* with the operation's result after k+1 invocations when k < 5, and with the
\* 429 failure after exactly 5 invocations when k >= 5.
C1_RetryBound ==
    RateLimitedThenOk =>
        /\ Len(rt.trace) <= max_attempts
        /\ \A i \in 1..(Len(rt.trace) - 1) : rt.trace[i] # "ok"
        /\ rt.pc = "done" =>
              IF Len(rt.script) < max_attempts
              THEN rt.result = "ok" /\ Len(rt.trace) = Len(rt.script) + 1
              ELSE rt.result = "429" /\ Len(rt.trace) = max_attempts

C1_Witness ==
    /\ RateLimitedThenOk /\ rt.pc = "done"
    /\ Len(rt.script) > max_attempts
    /\ rt.result = "429" /\ Len(rt.trace) = max_attempts

Declared(df, cols) ==
    [cols |-> cols,
     rows |-> [ i \in DOMAIN df.rows |->
                  [ c \in Range(cols) |->
                      IF c \in Range(df.cols) THEN df.rows[i][c] ELSE "" ] ]]

IsEmptyValue(v) == v = "" \/ v = NaN

\* Declared(df, cols) as it reads back from the sheet: the rows whose fields
\* are all empty are gone, and an empty field is a missing value.
ReadBack(df, cols) ==
    LET d == Declared(df, cols)
        kept == SelectSeq(d.rows, LAMBDA r : \E c \in Range(cols) : ~IsEmptyValue(r[c]))
    IN  [cols |-> cols,
         rows |-> [ i \in DOMAIN kept |->
                      [ c \in Range(cols) |->
                          IF IsEmptyValue(kept[i][c]) THEN NaN ELSE kept[i][c] ] ]]

\* What the worksheet of (tab, year) holds now, as load_df presents it.
Current(tab, year) ==
    select_columns(ensure_columns(dropna_all(get_as_dataframe(sheet[ws_name(tab, year)])),
                                  base_columns(tab)), base_columns(tab))

LoadOk == last.op = "load" /\ last.status = "ok"

\* C2: a load made inside the cache window of its table (less than 60 s
\* after the load that read the remote sheet, with no successful local save
\* since) returns that load's snapshot and reads nothing remote, whatever was
\* edited in the sheet meanwhile; any other load reads the remote sheet and
\* returns its current contents.
C2_CacheWindow ==
    LoadOk =>
        IF last.inWindow
        THEN last.hit /\ ~last.read /\ last.df = last.snap
        ELSE ~last.hit /\ last.read /\ last.df = Current(last.tab, last.year)

C2_Witness ==
    /\ LoadOk /\ last.inWindow /\ last.hit
    /\ last.df # Current(last.tab, last.year)
    /\ now > 0

C4_LoadDegrades ==
    (last.op = "load" /\ last.exhausted) =>
        /\ last.status = "ok"
        /\ last.df = [cols |-> base_columns(last.tab), rows |-> <<>>]

\* C8: every table load returns has exactly the declared columns of its
\* category, in declared order, in every row; a declared column the
\* worksheet lacks is filled with empty strings; a load that created the
\* worksheet returns no rows.
C8_DeclaredColumns ==
    LoadOk =>
        /\ last.df.cols = base_columns(last.tab)
        /\ \A i \in DOMAIN last.df.rows :
              DOMAIN last.df.rows[i] = Range(base_columns(last.tab))
        /\ last.read =>
              \A i \in DOMAIN last.df.rows :
                  \A c \in Range(base_columns(last.tab)) \ Range(last.ensured.header) :
                      last.df.rows[i][c] = ""
        /\ last.created => last.df.rows = <<>>

C8_Witness ==
    /\ LoadOk /\ last.read
    /\ last.ensured.header = ExtHeader(last.tab)
    /\ last.df.rows # <<>>

\* C9: _ensure_worksheet on a worksheet that exists creates nothing and
\* leaves its header and rows as they are, and a worksheet that exists never
\* stops existing.
C9_EnsureIdempotent ==
    [][ /\ (last'.op \in {"load", "save"} /\ last'.pre.present) =>
              (~last'.created /\ last'.ensured = last'.pre)
        /\ \A w \in WsNames : sheet[w].present => sheet'[w].present ]_vars

C9_Witness ==
    /\ last.op = "load" /\ last.status = "ok" /\ ~last.hit
    /\ last.pre.present /\ last.pre.rows # <<>>

RowKey(r, tab) == <<r["Faculty"], r["Academic Year"], r[title_col(tab)]>>

Keys(rows, tab) == { RowKey(rows[i], tab) : i \in DOMAIN rows }

TabOf(w) == CHOOSE t \in Tabs : \E y \in Years : ws_name(t, y) = w

HasKeyColumns(ws, tab) ==
    {"Faculty", "Academic Year", title_col(tab)} \subseteq Range(ws.header)

\* C5: a row stored in a table stays in it, and the number of rows of a
\* table never goes down.
C5_RowsNeverDeleted ==
    [][ \A w \in WsNames :
          (HasKeyColumns(sheet[w], TabOf(w)) /\ HasKeyColumns(sheet'[w], TabOf(w))) =>
              /\ Keys(sheet[w].rows, TabOf(w)) \subseteq Keys(sheet'[w].rows, TabOf(w))
              /\ Len(sheet'[w].rows) >= Len(sheet[w].rows) ]_vars

C10_StatusAllowed ==
    \A w \in WsNames :
        "Status" \in Range(sheet[w].header) =>
            \A i \in DOMAIN sheet[w].rows :
                sheet[w].rows[i]["Status"] \in Range(status_dict[TabOf(w)])

====
